---- MODULE Spec2Model ----
(***************************************************************************)
(* weather_fetch_github.py: two MOSMIX fetch jobs (MOSMIX-L every 30       *)
(* minutes, MOSMIX-S every 15 minutes) registered with the `schedule`      *)
(* library and driven by the loop                                          *)
(*     try:                                                                *)
(*         while True: schedule.run_pending(); time.sleep(60)              *)
(*     except KeyboardInterrupt: print("Scheduler stopped by user.")       *)
(*                                                                         *)
(* Time is counted in seconds.  The scheduler only ever compares           *)
(* datetime.now() with job.next_run, so the state keeps the difference     *)
(* dueIn[j] = job.next_run - datetime.now(): a step that takes d seconds   *)
(* lowers every dueIn[j] by d, `now >= next_run` is dueIn[j] <= 0 and      *)
(* `next_run = now + period` is dueIn[j] = period.  clock and sinceDone    *)
(* are saturating observers of elapsed time; they are never read by the    *)
(* program's steps.                                                        *)
(***************************************************************************)
EXTENDS Integers, Sequences, FiniteSets, TLC

VARIABLES
    pc,          \* position of main(): regL, regS, banner, pending, dispatch,
                 \* fetch, export, sleep, stopped, crashed, killed
    jobs,        \* schedule.jobs: the registered jobs, in registration order
    dueIn,       \* dueIn[j] = job.next_run - now, in seconds
    queue,       \* run_pending: the runnable jobs of this call still to run
    df,          \* the running job's DataFrame after tz_localize(None)
    files,       \* the filesystem: path -> rows of the written workbook
    dirs,        \* the directories that exist
    stdout,      \* the messages printed so far
    interrupted, \* a KeyboardInterrupt (Ctrl+C) has been delivered
    failure,     \* <<>>, or <<job, error>> of the job run that raised
    clock,       \* seconds since main() started, saturating at MaxClock
    sinceDone,   \* seconds since job j last completed (saturating), -1: never
    polled,      \* the jobs that were due when this run_pending call began
    invoked,     \* the jobs invoked so far in this run_pending call
    polls,       \* run_pending calls made so far, saturating at MaxPolls
    slept,       \* time.sleep(60) has returned at least once
    before,      \* the filesystem when the last job of this call was invoked
    seen         \* seen[j]: the first-row dates of the datasets fetched for j

vars == <<pc, jobs, dueIn, queue, df, files, dirs, stdout, interrupted,
          failure, clock, sinceDone, polled, invoked, polls, slept, before, seen>>

----------------------------------------------------------------------------
(* Bounds of the model *)

\* the observer clock stops counting here (seconds)
MaxClock == 2000
\* a provider call takes k * DurStep seconds, k in 0..MaxDur, or LongRun
MaxDur == 2
\* the run_pending counter stops counting here
MaxPolls == 2
\* rows of a dataset the provider returns
MaxRows == 2

----------------------------------------------------------------------------
(* Program constants *)

\* schedule.every(30).minutes
IntervalL == 30
\* schedule.every(15).minutes
IntervalS == 15
\* time.sleep(60)
Poll == 60
\* the `minutes` unit of both registrations, in seconds
SecondsPerMinute == 60

BASE_DIR == "~/mosmix_data"

L == "MOSMIX-L"
S == "MOSMIX-S"
Kinds == {L, S}

\* the period of a job: datetime.timedelta(minutes=interval)
Period(j) == (IF j = L THEN IntervalL ELSE IntervalS) * SecondsPerMinute

\* the strftime prefix of a product
Prefix(j) == IF j = L THEN "L" ELSE "S"

----------------------------------------------------------------------------
(* Datasets: a sequence of rows, each with a `date` *)

T1 == [year |-> 2024, month |-> 3, day |-> 1,
       hour |-> 10, minute |-> 0, second |-> 0, tz |-> "UTC"]
T2 == [year |-> 2024, month |-> 11, day |-> 12,
       hour |-> 9, minute |-> 5, second |-> 7, tz |-> "UTC"]
Timestamps == {T1, T2}

Rows == [date : Timestamps]

\* every dataset of at most n rows
Datasets(n) == UNION {[1..k -> Rows] : k \in 0..n}

\* Series.dt.tz_localize(None): drop the zone, keep the wall-clock fields
tz_localize_none(t) == [t EXCEPT !.tz = "naive"]

\* df['date'] = df['date'].dt.tz_localize(None)
Normalize(d) == [i \in 1..Len(d) |-> [d[i] EXCEPT !.date = tz_localize_none(d[i].date)]]

\* %m, %d, %H, %M, %S: two digits, zero-padded
Pad2(n) == IF n < 10 THEN "0" \o ToString(n) ELSE ToString(n)

\* %Y for a four-digit year
Pad4(n) == IF n < 10 THEN "000" \o ToString(n)
           ELSE IF n < 100 THEN "00" \o ToString(n)
           ELSE IF n < 1000 THEN "0" \o ToString(n)
           ELSE ToString(n)

\* a format string that stops at the minute: '<prefix>_%Y_%m_%d_%H_%M'
strftimeToMinute(prefix, t) ==
    prefix \o "_" \o Pad4(t.year) \o "_" \o Pad2(t.month) \o "_" \o Pad2(t.day)
           \o "_" \o Pad2(t.hour) \o "_" \o Pad2(t.minute)

\* t.strftime('<prefix>_%Y_%m_%d_%H_%M_%S')
strftime(prefix, t) ==
    prefix \o "_" \o Pad4(t.year) \o "_" \o Pad2(t.month) \o "_" \o Pad2(t.day)
           \o "_" \o Pad2(t.hour) \o "_" \o Pad2(t.minute) \o "_" \o Pad2(t.second)

\* a filename taken from the last row instead of the first
FilenameLastRow(j, d) == strftime(Prefix(j), d[Len(d)].date)

\* filename = df.iloc[0]['date'].strftime(...)
Filename(j, d) == strftime(Prefix(j), d[1].date)

\* an output directory that ignores the product type
OutputDirShared(j) == <<BASE_DIR, L>>

\* A path is the sequence of its components.
\* get_output_dir: os.path.join(BASE_DIR, product_type)
OutputDir(j) == <<BASE_DIR, j>>

\* os.path.join(output_dir, f"{filename}.xlsx")
OutputPath(j, d) == Append(OutputDir(j), Filename(j, d) \o ".xlsx")

----------------------------------------------------------------------------
(* The provider: what one query can answer *)

QueryError == [ok |-> FALSE, rows |-> <<>>]
Answer(d) == [ok |-> TRUE, rows |-> d]

\* lines 77-85 raise: the query fails, or the DataFrame has no row 0
Raises(r) == ~r.ok \/ r.rows = <<>>

----------------------------------------------------------------------------
(* Elapsed time *)

Min(a, b) == IF a <= b THEN a ELSE b

\* every job's next_run comes d seconds closer
Elapse(d) == [j \in DOMAIN dueIn |-> dueIn[j] - d]

ClockAfter(d) == Min(clock + d, MaxClock)

SinceAfter(d) ==
    [j \in Kinds |-> IF sinceDone[j] < 0 THEN -1 ELSE Min(sinceDone[j] + d, Period(j))]

\* a third of the poll granularity
DurStep == Poll \div 3
\* a provider call that blocks for longer than the MOSMIX-S interval
LongRun == Period(S) + Poll
Durations == {k * DurStep : k \in 0..MaxDur} \cup {LongRun}

----------------------------------------------------------------------------
(* The schedule library, as main() uses it *)

\* Job.should_run: datetime.datetime.now() >= self.next_run
should_run(j) == dueIn[j] <= 0

\* Job.__lt__ orders jobs by next_run; sorted() is stable
RECURSIVE Insert(_, _)
Insert(j, q) ==
    IF q = <<>> THEN <<j>>
    ELSE IF dueIn[j] <= dueIn[Head(q)] THEN <<j>> \o q
    ELSE <<Head(q)>> \o Insert(j, Tail(q))

RECURSIVE Sorted(_)
Sorted(q) == IF q = <<>> THEN <<>> ELSE Insert(Head(q), Sorted(Tail(q)))

\* a scheduler that catches up: a job overdue by a whole period is queued once
\* more for the interval it missed
RunnableCatchUp ==
    LET q == Sorted(SelectSeq(jobs, should_run))
        missed(j) == dueIn[j] <= -Period(j)
    IN  q \o SelectSeq(q, missed)

\* Sorted inserts from the last element to the first, and Insert puts a job in
\* front of its equals: jobs with equal next_run keep their registration order
Runnable == Sorted(SelectSeq(jobs, should_run))

\* a reschedule that restarts every job's interval, not only the finished job's
RescheduledAll(j) == [k \in DOMAIN dueIn |-> Period(k)]

\* a reschedule from the missed due time: next_run = next_run + period
RescheduledFromDue(j) == [dueIn EXCEPT ![j] = @ + Period(j)]

\* Job._schedule_next_run after a run: next_run = datetime.now() + period
Rescheduled(j) == [dueIn EXCEPT ![j] = Period(j)]

\* the write of the workbook: a second export to the same path replaces it
Written(path, rows) == [p \in DOMAIN files \cup {path} |-> IF p = path THEN rows ELSE files[p]]

SavedMsg(j, path) == <<"[" \o j \o "] Data saved to: ", path>>
StartMsg == <<"Scheduler started.">>
StopMsg == <<"Scheduler stopped by user.">>

InLoop == pc \in {"pending", "dispatch", "fetch", "export", "sleep"}
Terminated == pc \in {"stopped", "crashed", "killed"}

----------------------------------------------------------------------------
Init ==
    /\ pc = "regL"
    /\ jobs = <<>>
    /\ dueIn = <<>>
    /\ queue = <<>>
    /\ df = <<>>
    /\ files = <<>>
    /\ dirs = {}
    /\ stdout = {}
    /\ interrupted = FALSE
    /\ failure = <<>>
    /\ clock = 0
    /\ sinceDone = [j \in Kinds |-> -1]
    /\ polled = {}
    /\ invoked = {}
    /\ polls = 0
    /\ slept = FALSE
    /\ before = <<>>
    /\ seen = [j \in Kinds |-> {}]

\* a registration that leaves the job due at once: next_run = now
RegisterDueNow(j, at, to) ==
    /\ pc = at
    /\ jobs' = Append(jobs, j)
    /\ dueIn' = (j :> 0) @@ dueIn
    /\ pc' = to
    /\ UNCHANGED <<queue, df, files, dirs, stdout, interrupted, failure, clock,
                   sinceDone, polled, invoked, polls, slept, before, seen>>

\* schedule.every(n).minutes.do(f): append the job, next_run = now + period
Register(j, at, to) ==
    /\ pc = at
    /\ jobs' = Append(jobs, j)
    /\ dueIn' = (j :> Period(j)) @@ dueIn
    /\ pc' = to
    /\ UNCHANGED <<queue, df, files, dirs, stdout, interrupted, failure, clock,
                   sinceDone, polled, invoked, polls, slept, before, seen>>

RegisterL == Register(L, "regL", "regS")
RegisterS == Register(S, "regS", "banner")

\* a loop that sleeps before its first due-check: while True: sleep; run_pending
BannerThenSleep ==
    /\ pc = "banner"
    /\ stdout' = stdout \cup {StartMsg}
    /\ pc' = "sleep"
    /\ UNCHANGED <<jobs, dueIn, queue, df, files, dirs, interrupted, failure, clock,
                   sinceDone, polled, invoked, polls, slept, before, seen>>

\* print("Scheduler started. ...")
Banner ==
    /\ pc = "banner"
    /\ stdout' = stdout \cup {StartMsg}
    /\ pc' = "pending"
    /\ UNCHANGED <<jobs, dueIn, queue, df, files, dirs, interrupted, failure, clock,
                   sinceDone, polled, invoked, polls, slept, before, seen>>

\* schedule.run_pending(): the runnable jobs are collected and sorted first
RunPending ==
    /\ pc = "pending"
    /\ queue' = Runnable
    /\ polled' = {j \in Kinds : j \in DOMAIN dueIn /\ should_run(j)}
    /\ invoked' = {}
    /\ polls' = Min(polls + 1, MaxPolls)
    /\ pc' = "dispatch"
    /\ UNCHANGED <<jobs, dueIn, df, files, dirs, stdout, interrupted, failure, clock,
                   sinceDone, slept, before, seen>>

\* for job in sorted(runnable_jobs): self._run_job(job) -- the next job starts
StartJob ==
    /\ pc = "dispatch"
    /\ queue # <<>>
    /\ invoked' = invoked \cup {Head(queue)}
    /\ before' = files
    /\ pc' = "fetch"
    /\ UNCHANGED <<jobs, dueIn, queue, df, files, dirs, stdout, interrupted, failure,
                   clock, sinceDone, polled, polls, slept, seen>>

\* run_pending returns: no runnable job is left
EndPending ==
    /\ pc = "dispatch"
    /\ queue = <<>>
    /\ before' = files
    /\ pc' = "sleep"
    /\ UNCHANGED <<jobs, dueIn, queue, df, files, dirs, stdout, interrupted, failure,
                   clock, sinceDone, polled, invoked, polls, slept, seen>>

\* a fetch that opens its output file before it looks at the rows: an empty
\* answer leaves an empty workbook behind
FetchWritesFirst(d, r) ==
    /\ pc = "fetch"
    /\ dueIn' = Elapse(d)
    /\ clock' = ClockAfter(d)
    /\ sinceDone' = SinceAfter(d)
    /\ IF Raises(r)
       THEN /\ pc' = "crashed"
            /\ failure' = <<Head(queue), "RetrievalError">>
            /\ df' = <<>>
            /\ seen' = seen
            /\ files' = IF r.ok
                        THEN Written(Append(OutputDir(Head(queue)), "empty.xlsx"), <<>>)
                        ELSE files
       ELSE /\ pc' = "export"
            /\ failure' = failure
            /\ df' = Normalize(r.rows)
            /\ seen' = [seen EXCEPT ![Head(queue)] = @ \cup {Normalize(r.rows)[1].date}]
            /\ files' = files
    /\ UNCHANGED <<jobs, queue, dirs, stdout, interrupted, polled, invoked,
                   polls, slept, before>>

\* fetch_*_weather, lines 63-85: query the provider (blocking for d seconds),
\* strip the zone, derive the filename.  An exception leaves run_pending and
\* the while loop; main() catches KeyboardInterrupt only.
Fetch(d, r) ==
    /\ pc = "fetch"
    /\ dueIn' = Elapse(d)
    /\ clock' = ClockAfter(d)
    /\ sinceDone' = SinceAfter(d)
    /\ IF Raises(r)
       THEN /\ pc' = "crashed"
            /\ failure' = <<Head(queue), "RetrievalError">>
            /\ df' = <<>>
            /\ seen' = seen
       ELSE /\ pc' = "export"
            /\ failure' = failure
            /\ df' = Normalize(r.rows)
            /\ seen' = [seen EXCEPT ![Head(queue)] = @ \cup {Normalize(r.rows)[1].date}]
    /\ UNCHANGED <<jobs, queue, files, dirs, stdout, interrupted, polled, invoked,
                   polls, slept, before>>

\* an export that did not finish: makedirs failed, or to_excel failed before
\* or after it opened the file
Unfinished(j) ==
    \/ /\ dirs' = dirs
       /\ files' = files
    \/ /\ dirs' = dirs \cup {OutputDir(j)}
       /\ files' = files
    \/ /\ dirs' = dirs \cup {OutputDir(j)}
       /\ files' = Written(OutputPath(j, df), <<>>)

\* fetch_*_weather, lines 87-92, and the rest of Job.run: makedirs, to_excel,
\* print, then next_run = now + period
Export ==
    /\ pc = "export"
    /\ LET j == Head(queue)
           path == OutputPath(j, df)
       IN  /\ dirs' = dirs \cup {OutputDir(j)}
           /\ files' = Written(path, df)
           /\ stdout' = stdout \cup {SavedMsg(j, path)}
           /\ dueIn' = Rescheduled(j)
           /\ sinceDone' = [sinceDone EXCEPT ![j] = 0]
    /\ queue' = Tail(queue)
    /\ df' = <<>>
    /\ pc' = "dispatch"
    /\ UNCHANGED <<jobs, interrupted, failure, clock, polled, invoked, polls, slept,
                   before, seen>>

\* os.makedirs or df.to_excel raises (permissions, disk full)
ExportFails ==
    /\ pc = "export"
    /\ Unfinished(Head(queue))
    /\ failure' = <<Head(queue), "PersistenceError">>
    /\ df' = <<>>
    /\ pc' = "crashed"
    /\ UNCHANGED <<jobs, dueIn, queue, stdout, interrupted, clock, sinceDone, polled,
                   invoked, polls, slept, before, seen>>

\* time.sleep(60)
Sleep ==
    /\ pc = "sleep"
    /\ dueIn' = Elapse(Poll)
    /\ clock' = ClockAfter(Poll)
    /\ sinceDone' = SinceAfter(Poll)
    /\ slept' = TRUE
    /\ pc' = "pending"
    /\ UNCHANGED <<jobs, queue, df, files, dirs, stdout, interrupted, failure, polled,
                   invoked, polls, before, seen>>

\* a job that swallows the interrupt (a bare except around the fetch): the
\* loop goes on with the next runnable job
InterruptSwallowed ==
    /\ InLoop
    /\ IF pc = "export" THEN Unfinished(Head(queue)) ELSE UNCHANGED <<dirs, files>>
    /\ interrupted' = TRUE
    /\ IF pc \in {"fetch", "export"}
       THEN /\ pc' = "dispatch"
            /\ queue' = Tail(queue)
            /\ stdout' = stdout
       ELSE /\ pc' = "stopped"
            /\ queue' = queue
            /\ stdout' = stdout \cup {StopMsg}
    /\ UNCHANGED <<jobs, dueIn, df, failure, clock, sinceDone, polled, invoked,
                   polls, slept, before, seen>>

\* Ctrl+C inside the try block: except KeyboardInterrupt prints the stop message
Interrupt ==
    /\ InLoop
    /\ IF pc = "export" THEN Unfinished(Head(queue)) ELSE UNCHANGED <<dirs, files>>
    /\ interrupted' = TRUE
    /\ stdout' = stdout \cup {StopMsg}
    /\ pc' = "stopped"
    /\ UNCHANGED <<jobs, dueIn, queue, df, failure, clock, sinceDone, polled, invoked,
                   polls, slept, before, seen>>

\* Ctrl+C before the try block is entered: nothing catches it
InterruptEarly ==
    /\ pc \in {"regL", "regS", "banner"}
    /\ interrupted' = TRUE
    /\ pc' = "killed"
    /\ UNCHANGED <<jobs, dueIn, queue, df, files, dirs, stdout, failure, clock,
                   sinceDone, polled, invoked, polls, slept, before, seen>>

\* what the provider may answer in the timing model: a failure, no rows, one row
FewAnswers == {QueryError, Answer(<<>>), Answer(<<[date |-> T1]>>)}
\* every dataset of at most MaxRows rows
AllAnswers == {QueryError} \cup {Answer(d) : d \in Datasets(MaxRows)}

\* the steps of the program itself
Step(D, A) ==
    \/ RegisterL
    \/ RegisterS
    \/ Banner
    \/ RunPending
    \/ StartJob
    \/ EndPending
    \/ \E d \in D, r \in A : Fetch(d, r)
    \/ Export
    \/ ExportFails
    \/ Sleep

Next == Step(Durations, FewAnswers) \/ Interrupt \/ InterruptEarly

Spec == Init /\ [][Next]_vars

\* the loop keeps running unless it is interrupted; an interrupt is never forced
FairSpec == Spec /\ WF_vars(Step(Durations, FewAnswers))

\* the same program with every dataset of at most MaxRows rows and provider
\* calls that return at once
FileNext == Step({0}, AllAnswers) \/ Interrupt \/ InterruptEarly

FileSpec == Init /\ [][FileNext]_vars

----------------------------------------------------------------------------
(* Vocabulary of the properties *)

\* the files in the output directory of product j
FilesIn(j) == {p \in DOMAIN files : p[2] = j}

\* job j is executing
Running(j) == pc \in {"fetch", "export"} /\ Head(queue) = j

\* a run of job j raised
Failed(j) == failure # <<>> /\ failure[1] = j

\* run_pending has returned (or was left) for this poll cycle
CycleOver == pc \notin {"dispatch", "fetch", "export"}

\* the naive first-row date of a written workbook
FirstDate(rows) == rows[1].date

----------------------------------------------------------------------------
\* C1: a failure inside a job's run never terminates the scheduling loop: in
\* every state where the loop has stopped, an operator interrupt has occurred.
C1_OnlyInterruptStops == Terminated => interrupted

\* C2: when one job's run fails, every other job that was due in the same poll
\* cycle is still invoked in that cycle: once the cycle of a failed run is over,
\* every job that was due at its due-check has been invoked.
C2_OtherDueJobsStillInvoked ==
    (failure # <<>> /\ ~interrupted /\ CycleOver) => polled \subseteq invoked

\* C3: after a job's run fails, the same job is, absent an operator interrupt,
\* eventually invoked again.
C3_FailedJobRetried ==
    \A j \in Kinds : [](Failed(j) => <>(Running(j) \/ interrupted))

\* C4: a job is never invoked before its registered interval has elapsed since
\* the completion of its previous run, whatever the durations of the runs in
\* between.
C4_IntervalSinceCompletion ==
    \A j \in Kinds : Running(j) => (sinceDone[j] = -1 \/ sinceDone[j] >= Period(j))

\* C4 witness: MOSMIX-L runs for the second time after MOSMIX-S blocked the loop
\* past a due time of its own
C4_Witness ==
    /\ Running(L)
    /\ sinceDone[L] >= Period(L)
    /\ dueIn[S] < 0

\* C5: whenever both jobs are due at the same poll tick, both are invoked within
\* that tick, MOSMIX-L before MOSMIX-S, and none is skipped.
C5_BothDueBothRunInOrder ==
    polled = Kinds =>
        /\ S \in invoked => L \in invoked
        /\ (CycleOver /\ ~interrupted) => invoked = Kinds

\* C6: a fetch cycle whose provider call fails or returns no rows writes no
\* file: the files after the failed cycle are those before it.
C6_FailedFetchWritesNothing ==
    (failure # <<>> /\ failure[2] = "RetrievalError") => files = before

\* C6 witness: a retrieval failure after files had been written
C6_Witness ==
    /\ failure # <<>>
    /\ failure[2] = "RetrievalError"
    /\ FilesIn(L) # {}
    /\ FilesIn(S) # {}

\* C7: an operator interrupt, during the poll sleep or while a job is
\* executing, makes the loop exit with the stop message logged, and after the
\* exit no job is ever invoked again.
C7_InterruptStopsCleanly ==
    /\ []((interrupted /\ pc # "killed") => (pc = "stopped" /\ StopMsg \in stdout))
    /\ [][pc = "stopped" => (pc' = "stopped" /\ invoked' = invoked)]_vars

\* C7 witness: the loop has stopped on an interrupt that arrived while a job
\* was executing (its DataFrame was being exported)
C7_Witness ==
    /\ pc = "stopped"
    /\ df # <<>>
    /\ StopMsg \in stdout

\* C8: in every execution with no operator interrupt each registered job is
\* invoked infinitely often.
C8_EveryJobInvokedForever ==
    \A j \in Kinds : []<>(Running(j) \/ interrupted)

\* the files in the output directory of product j after the step
FilesInNext(j) == {p \in DOMAIN files' : p[2] = j}

\* the step in which the running job's export succeeds
ExportDone == pc = "export" /\ pc' = "dispatch"

\* C9: two successful fetch cycles of one product whose datasets have the same
\* first-row timestamp resolve to the same path and the second export
\* overwrites the first: after it exactly one file of the product starts with
\* that timestamp and it holds the second cycle's dataset; the files of a
\* product never outnumber the distinct first-row timestamps fetched for it.
C9_SameTimestampOverwrites ==
    /\ [][ExportDone =>
            LET j == Head(queue)
                same == {p \in FilesInNext(j) :
                            files'[p] # <<>> /\ FirstDate(files'[p]) = FirstDate(df)}
            IN  /\ Cardinality(same) = 1
                /\ \A p \in same : files'[p] = df
                /\ (\E p \in FilesIn(j) :
                        files[p] # <<>> /\ FirstDate(files[p]) = FirstDate(df))
                   => DOMAIN files' = DOMAIN files]_vars
    /\ [](\A j \in Kinds : Cardinality(FilesIn(j)) <= Cardinality(seen[j]))

\* C9 witness: an export has just replaced a file by a different dataset with
\* the same first-row timestamp
C9_Witness ==
    /\ pc = "dispatch"
    /\ \E p \in DOMAIN before \cap DOMAIN files :
          /\ before[p] # files[p]
          /\ FirstDate(before[p]) = FirstDate(files[p])

\* the file of scenario A
ScenarioFile == Append(OutputDir(L), "L_2024_03_01_10_00_00.xlsx")

\* the export of a MOSMIX-L dataset whose first row is 2024-03-01T10:00:00Z
ExportDoneScenarioA ==
    /\ ExportDone
    /\ Head(queue) = L
    /\ FirstDate(df) = tz_localize_none(T1)

\* a step that creates or changes a file of MOSMIX-L
WritesL ==
    \/ FilesInNext(L) # FilesIn(L)
    \/ \E p \in FilesIn(L) : files'[p] # files[p]

\* C10 as stated: after the loop's first due-check the file
\* L_2024_03_01_10_00_00.xlsx exists in the MOSMIX-L directory.
C10_FileAfterFirstDueCheck ==
    (polls = 1 /\ pc = "sleep") => ScenarioFile \in DOMAIN files

\* C10 amended: the first due-check writes nothing and no MOSMIX-L file exists
\* before t = 30 minutes; the MOSMIX-L run that completes with the scenario's
\* dataset leaves L_2024_03_01_10_00_00.xlsx holding it in the MOSMIX-L
\* directory; no MOSMIX-L file is written again until 30 minutes after that
\* run's completion.
C10_FileAfterFirstDueRun ==
    /\ [](polls = 1 => files = <<>>)
    /\ [](clock < Period(L) => FilesIn(L) = {})
    /\ [][ExportDoneScenarioA =>
            (ScenarioFile \in DOMAIN files' /\ files'[ScenarioFile] = df)]_vars
    /\ [][WritesL => (sinceDone[L] = -1 \/ sinceDone[L] >= Period(L))]_vars

\* C10 witness: the scenario's file exists, written at the first due-check at
\* or after t = 30 minutes
C10_Witness ==
    /\ ScenarioFile \in DOMAIN files
    /\ files[ScenarioFile] = <<[date |-> tz_localize_none(T1)]>>
    /\ clock >= Period(L)
    /\ sinceDone[L] = 0

----------------------------------------------------------------------------
\* dates that differ from T1 in a single field, beside those the provider
\* answers with in the model
NearT1 ==
    {[T1 EXCEPT !.second = 30], [T1 EXCEPT !.minute = 30], [T1 EXCEPT !.hour = 1],
     [T1 EXCEPT !.day = 10], [T1 EXCEPT !.month = 1], [T1 EXCEPT !.year = 2025]}

\* the non-empty datasets a second fetch cycle is compared with: any of these
\* dates in the first row, followed by any rows the provider answers with
OtherDatasets ==
    {<<[date |-> t]>> \o rest : t \in Timestamps \cup NearT1, rest \in Datasets(MaxRows - 1)}

\* C11: the filename of a fetch cycle is determined by the product's prefix and
\* the first row's timestamp only: against the dataset the running job holds,
\* any dataset of the same product has the same filename exactly when it has
\* the same first-row timestamp, whatever its length and its later rows.
C11_FilenameFromFirstRowOnly ==
    pc = "export" =>
        \A d \in OtherDatasets :
            (Filename(Head(queue), Normalize(d)) = Filename(Head(queue), df))
                <=> (FirstDate(Normalize(d)) = FirstDate(df))

\* C11 witness: the running job holds a dataset of two rows with different dates
C11_Witness ==
    /\ pc = "export"
    /\ Len(df) = 2
    /\ df[1].date # df[2].date

----------------------------------------------------------------------------
\* C12: registration sets next-due-time = registration time + interval, so no
\* job is invoked at startup: MOSMIX-S never runs before 15 minutes and
\* MOSMIX-L never before 30 minutes have elapsed, and the loop's first poll
\* invokes nothing.
C12_NothingRunsAtStartup ==
    /\ Running(S) => clock >= 15 * 60
    /\ Running(L) => clock >= 30 * 60
    /\ polls = 1 => (invoked = {} /\ polled = {} /\ pc \notin {"fetch", "export"})
    /\ (pc = "pending" /\ polls = 0) => (dueIn[S] = 15 * 60 /\ dueIn[L] = 30 * 60)

\* C12 witness: MOSMIX-S is invoked for the first time, 15 minutes after
\* registration
C12_Witness ==
    /\ Running(S)
    /\ sinceDone[S] = -1
    /\ clock = 15 * 60

----------------------------------------------------------------------------
\* the step in which run_pending invokes the next runnable job
JobInvoked == pc = "dispatch" /\ pc' = "fetch"

\* C13: no catch-up runs: a job that is overdue, even by more than one
\* interval, is invoked once in the poll tick, each job is invoked at most once
\* per poll tick, and when its run completes its next-due-time is that time
\* plus the interval.
C13_NoCatchUpRuns ==
    /\ [][JobInvoked => Head(queue) \notin invoked]_vars
    /\ [][ExportDone => dueIn'[Head(queue)] = Period(Head(queue))]_vars
    /\ [](pc = "sleep" => invoked = polled)
    /\ []((pc = "dispatch" /\ invoked = {}) =>
            \A j \in polled : dueIn[j] < -Period(j) => Head(queue) = j)
    /\ [](\A i, k \in 1..Len(queue) : queue[i] = queue[k] => i = k)

\* C13 witness: MOSMIX-S, overdue by more than its interval because MOSMIX-L
\* blocked the loop, is running as the only job of its poll tick
C13_Witness ==
    /\ Running(S)
    /\ pc = "export"
    /\ dueIn[S] < -Period(S)
    /\ invoked = {S}
    /\ sinceDone[L] >= 0

----------------------------------------------------------------------------
\* job j has been invoked in this run_pending call and has not returned
Executing(j) == j \in invoked /\ \E i \in 1..Len(queue) : queue[i] = j

\* the step leaves next_run of job k where it was: dueIn[k] + clock is
\* next_run[k] counted from the start of main(), while the clock still counts
SameNextRun(k) ==
    (k \in DOMAIN dueIn /\ k \in DOMAIN dueIn' /\ clock' < MaxClock)
        => dueIn'[k] + clock' = dueIn[k] + clock

\* the run_pending call has run its jobs, and job k, not due when the call
\* began, became due while they ran
BecameDueMeanwhile(k) ==
    /\ pc = "dispatch"
    /\ queue = <<>>
    /\ invoked # {}
    /\ k \notin polled
    /\ dueIn[k] <= 0

\* the step in which run_pending makes its due-check
DueCheck == pc = "pending" /\ pc' = "dispatch"

\* C14: at most one job is executing at any time; a step changes the
\* next-due-time of a job only when it completes a run of that very job, so a
\* fetch of one product leaves the other job's next-due-time unchanged however
\* long it runs; a job that became due meanwhile is queued by the next
\* due-check and, absent an interrupt, invoked.
C14_OneJobAtATimeOwnEntryOnly ==
    /\ [](Cardinality({j \in Kinds : Executing(j)}) <= 1)
    /\ [][\A k \in Kinds : ~(ExportDone /\ Head(queue) = k) => SameNextRun(k)]_vars
    /\ [][DueCheck => \A k \in Kinds : dueIn[k] <= 0 => (k \in polled' /\ Head(queue') \in polled')]_vars
    /\ \A k \in Kinds : BecameDueMeanwhile(k) ~> (Running(k) \/ interrupted)

\* C14 witness: MOSMIX-S became due while a MOSMIX-L fetch was blocking, and is
\* invoked at the due-check one poll sleep after that fetch completed
C14_Witness ==
    /\ pc = "fetch"
    /\ Head(queue) = S
    /\ polled = {S}
    /\ sinceDone[L] = Poll
    /\ dueIn[S] < -Poll

----------------------------------------------------------------------------
\* the paths the step creates or whose content it changes
Touched == {p \in DOMAIN files' : p \notin DOMAIN files \/ files'[p] # files[p]}

\* the filenames that carry the given prefix
NamesWith(prefix) ==
    {strftime(prefix, tz_localize_none(t)) \o ".xlsx" : t \in Timestamps}

\* C15: each successful fetch cycle writes exactly one file, in the directory
\* of its own product and with its own prefix; a cycle of one product never
\* creates or modifies a file in the other product's directory, and no step
\* ever deletes an output file.
C15_OneFileInOwnDirectory ==
    /\ [][DOMAIN files \subseteq DOMAIN files']_vars
    /\ [][\A p \in Touched : pc \in {"fetch", "export"} /\ p[2] = Head(queue)]_vars
    /\ [][ExportDone =>
            /\ Cardinality(Touched) <= 1
            /\ \E p \in FilesInNext(Head(queue)) :
                  /\ files'[p] = df
                  /\ Touched \subseteq {p}
                  /\ p[3] \in NamesWith(IF Head(queue) = L THEN "L" ELSE "S")
                  /\ Len(p) = 3 /\ p[1] = BASE_DIR]_vars
    /\ [](\A p \in DOMAIN files : p[2] \in Kinds /\ <<p[1], p[2]>> \in dirs)

\* C15 witness: a MOSMIX-S cycle has just written its file while a MOSMIX-L
\* file written earlier is still what it was
C15_Witness ==
    /\ pc = "dispatch"
    /\ sinceDone[S] = 0
    /\ FilesIn(L) # {}
    /\ \E p \in FilesIn(S) : p \notin DOMAIN before
    /\ \A p \in FilesIn(L) : p \in DOMAIN before /\ before[p] = files[p]

----------------------------------------------------------------------------
\* C16 as stated: every due-check, the first one after startup included, is
\* preceded by a poll sleep.
C16_SleepBeforeEveryDueCheck ==
    (polls >= 1 /\ pc = "dispatch") => slept

\* C16 amended: every iteration scans the entries, invokes each due job and
\* recomputes its next-due-time, and then sleeps for the poll granularity of 60
\* seconds; the first due-check is made at startup with no sleep before it,
\* and every later due-check directly follows a poll sleep.
C16_DueCheckThenSleep ==
    /\ []((polls = 1 /\ pc = "dispatch") => (~slept /\ clock = 0))
    /\ [](polls >= 2 => slept)
    /\ [][DueCheck => (polls = 0 \/ slept)]_vars
    /\ [][(pc' = "pending" /\ pc # "pending") =>
            (pc = "banner" \/ (pc = "sleep" /\ dueIn' = Elapse(60)))]_vars
    /\ [][(pc' = "sleep" /\ pc # "sleep") => (pc = "dispatch" /\ queue = <<>>)]_vars
    /\ [][JobInvoked => Head(queue) \in polled]_vars
    /\ [][ExportDone => ~(dueIn'[Head(queue)] <= 0)]_vars

\* C16 witness: a due-check made after a poll sleep has invoked a job
C16_Witness ==
    /\ polls >= 2
    /\ slept
    /\ pc = "fetch"
    /\ Head(queue) \in polled

====
